---- MODULE Spec2Model ----
(***************************************************************************)
(* Bengaluru traffic monitoring: the polling collector                     *)
(* (Critical_Real/traffic_collector.py), the point congestion cache of the *)
(* route evaluator (app.py), the alert engine                              *)
(* (Critical_Real/traffic_alerts.py) and the analyzer                      *)
(* (Critical_Real/traffic_analyzer.py).                                    *)
(*                                                                         *)
(* Numbers.  Coordinates are integers in units of 1e-5 degree, cache keys  *)
(* in units of 1e-4 degree.  Speeds and incident counts are integers; a    *)
(* ratio a/b is never formed, every comparison of ratios is done by cross  *)
(* multiplication, so the thresholds are exact.  None stands for Python's  *)
(* None / SQL NULL / pandas NaN.                                           *)
(*                                                                         *)
(* Time.  "now" counts clock ticks.  Every datetime.utcnow() of the code   *)
(* is a read of a clock that has advanced since the previous read (the     *)
(* isoformat strings the code compares have microsecond resolution).       *)
(***************************************************************************)
EXTENDS Integers, Sequences, FiniteSets, TLC

None == -999

IsNone(x) == x = None

Min(a, b) == IF a <= b THEN a ELSE b

Max(a, b) == IF a >= b THEN a ELSE b

(***************************************************************************)
(* traffic_config.py                                                       *)
(***************************************************************************)
MAX_RETRIES == 3

\* the first entries of the list of traffic_config.py
ConfiguredPoints ==
    << [name |-> "MG Road",         lat |-> 1297580, lon |-> 7760450],
       [name |-> "Silk Board",      lat |-> 1291770, lon |-> 7762260],
       [name |-> "Hosur Road",      lat |-> 1289990, lon |-> 7762070],
       [name |-> "Outer Ring Road", lat |-> 1296670, lon |-> 7768330] >>

\* how many of them a model run monitors
NumPoints == 2

MONITOR_POINTS == SubSeq(ConfiguredPoints, 1, NumPoints)

(***************************************************************************)
(* The upstream API, as the callers see one requests.get.                  *)
(*   kind "exc_request": requests.exceptions.RequestException (timeout,    *)
(*                       connection failure)                               *)
(*   kind "http":        a response with a status code                     *)
(* A 200 flow response carries a body:                                     *)
(*   "segment"   flowSegmentData is a non-empty object; cs / ffs are its   *)
(*               currentSpeed / freeFlowSpeed (None: the field is absent)  *)
(*   "nosegment" the JSON object has no (or an empty) flowSegmentData      *)
(*   "malformed" the JSON is not an object of the expected shape, so that  *)
(*               reading it raises an exception that is no                 *)
(*               RequestException                                          *)
(* A body that is no JSON at all makes response.json() raise; where that   *)
(* exception is a RequestException the caller sees kind "exc_request",     *)
(* elsewhere body "malformed".                                             *)
(***************************************************************************)
SpeedPairs == { <<20, 40>>, <<40, 40>>, <<20, None>> }

FlowFailures ==
    { [kind |-> k, status |-> s, body |-> "-", cs |-> None, ffs |-> None] :
        <<k, s>> \in { <<"exc_request", 0>>, <<"http", 403>>, <<"http", 500>> } }

NoFlow == [kind |-> "-", status |-> 0, body |-> "-", cs |-> None, ffs |-> None]

FlowResponses ==
    FlowFailures
    \cup { [kind |-> "http", status |-> 200, body |-> "segment",
            cs |-> p[1], ffs |-> p[2]] : p \in SpeedPairs }
    \cup { [kind |-> "http", status |-> 200, body |-> b,
            cs |-> None, ffs |-> None] : b \in {"nosegment", "malformed"} }

IncidentCounts == {0, 3}

IncidentResponses ==
    { [kind |-> k, status |-> s, body |-> "-", n |-> 0] :
        <<k, s>> \in { <<"exc_request", 0>>, <<"http", 500>> } }
    \cup { [kind |-> "http", status |-> 200, body |-> "incidents", n |-> c] :
             c \in IncidentCounts }
    \cup { [kind |-> "http", status |-> 200, body |-> "malformed", n |-> 0] }

VARIABLES
    api_key,            \* TRUE iff TOMTOM_API_KEY is set (collector)
    pc,                 \* position of the collector process
    point_idx,          \* collect_data: index of the point being processed
    attempt,            \* loop variable of the retry loop that is running
    flow_result,        \* get_traffic_data: the 200 flow response being completed
    traffic_data_row,   \* collect_data: local traffic_data (None or a row)
    successful_points,  \* collect_data: local counter
    traffic_data,       \* table traffic_data, in insertion order
    now,                \* clock
    events,             \* history: what get_traffic_data did for the current point
    attempted,          \* history: indexes of the points attempted in this run
    finished            \* history: per point of this run, how its processing ended

VARIABLES
    congestion_cache,   \* app.py: the dict, key -> <<currentSpeed, freeFlowSpeed>>
    cache_hits,         \* app.py: global counter
    api_calls,          \* app.py: global counter
    fetched,            \* history: coordinate -> the pair its first successful
                        \*          upstream fetch by get_congestion returned
    last_call           \* history: the last get_congestion call: its arguments,
                        \*   what it returned, how many upstream requests it made,
                        \*   whether the coordinate had been fetched before (seen)
                        \*   and with what result (want), and whether the
                        \*   collector had stored a sample of it (polled)

VARIABLES
    email_configured,   \* EMAIL_SENDER and EMAIL_PASSWORD are both set
    traffic_alerts,     \* table traffic_alerts, in insertion order
    alert_pc,           \* position of check_for_alerts: "idle" or "dispatch"
    alerts,             \* check_for_alerts: the local list alerts
    recent_data,        \* check_for_alerts: the rows _get_recent_traffic_data gave
    passes,             \* history: how many passes were started
    last_pass,          \* history: how the last pass went
    analysis            \* the frame the last analyzer call returned

VARIABLES
    stop_times,         \* app.py: stop_times_df, a set of rows
    last_search               \* history: the last find_routes_between call: its
                        \*   arguments and the list it returned

collector_vars ==
    << api_key, pc, point_idx, attempt, flow_result, traffic_data_row,
       successful_points, traffic_data, events, attempted, finished >>

cache_vars == << congestion_cache, cache_hits, api_calls, fetched, last_call >>

alert_vars ==
    << email_configured, traffic_alerts, alert_pc, alerts, recent_data, passes,
       last_pass >>

VARIABLES
    eval_pc,            \* position of evaluate_routes: "idle", "eta" (in
                        \*   get_estimated_times), "stops" (in the loop over the
                        \*   stops), "flush" (before open), "writing" (inside
                        \*   json.dump), "done", "killed"
    trip_ids,           \* evaluate_routes: the argument
    trip_pos,           \* evaluate_routes: position of trip_id in trip_ids
    stops,              \* evaluate_routes: the local list stops
    stop_pos,           \* position of stop in stops, in either loop
    base_time,          \* get_estimated_times: base_time, in minutes of the day
    current_time,       \* get_estimated_times: current_time, in minutes
    times,              \* get_estimated_times: the local list times
    total_delay,        \* evaluate_routes: total_delay
    congestion_values,  \* evaluate_routes: congestion_values
    seen_pairs,         \* history: what get_congestion returned for the stops of
                        \*   the current trip, in either loop
    route_scores,       \* evaluate_routes: route_scores
    result,             \* what evaluate_routes returned
    cache_file,         \* the content of congestion_cache.json
    snapshot_before,    \* history: the content of the file when evaluate_routes
                        \*   opened it
    trip_log            \* history: per trip evaluate_routes has dealt with, what
                        \*   the two loops were given and whether the trip was
                        \*   put into route_scores

VARIABLES
    upstream,           \* what the upstream answers for each monitored point while
                        \*   it does not change (<< >>: not fixed)
    first_run,          \* history: the table and the outcomes of the first
                        \*   collect_data run, once a second run has started
    workers,            \* the requests a threaded server is handling: per
                        \*   thread, its position and its locals
    overlap             \* history: a thread has written to the cache or the
                        \*   snapshot while another was inside its flush

route_vars == << stop_times, last_search >>

rerun_vars == << upstream, first_run >>

worker_vars == << workers, overlap >>

scenario_vars == << rerun_vars, worker_vars >>

eval_vars ==
    << eval_pc, trip_ids, trip_pos, stops, stop_pos, base_time, current_time,
       times, total_delay, congestion_values, seen_pairs, route_scores, result,
       cache_file, snapshot_before, trip_log >>

app_vars == << route_vars, eval_vars, scenario_vars >>

vars == << collector_vars, now, cache_vars, alert_vars, analysis, app_vars >>

(***************************************************************************)
(* traffic_collector.py                                                    *)
(***************************************************************************)
NoRow ==
    [point_name |-> "-", latitude |-> 0, longitude |-> 0, timestamp |-> 0,
     current_speed |-> None, free_flow_speed |-> None, traffic_incidents |-> 0,
     present |-> FALSE]

\* the dict get_traffic_data returns for a 200 response
SampleDict(point, flow, incidents, ts) ==
    [point_name |-> point.name, latitude |-> point.lat, longitude |-> point.lon,
     timestamp |-> ts,
     current_speed |-> IF flow.body = "segment" THEN flow.cs ELSE None,
     free_flow_speed |-> IF flow.body = "segment" THEN flow.ffs ELSE None,
     traffic_incidents |-> incidents,
     present |-> TRUE]

FlowEvent(r) == [ev |-> "flow", kind |-> r.kind, status |-> r.status, d |-> 0]

IncidentEvent(r) == [ev |-> "incident", kind |-> r.kind, status |-> r.status, d |-> 0]

SleepEvent(d) == [ev |-> "sleep", kind |-> "-", status |-> 0, d |-> d]

\* time_module.sleep(1 * (attempt + 1))
BackoffDelay(a) == 1 * (a + 1)

\* a variant of the test below that would also sleep after the last attempt
\* (not the code's; C1 tells the two apart)
SleepsAfterEveryFailure(a) == a < MAX_RETRIES

\* if attempt < MAX_RETRIES - 1
SleepsBeforeRetry(a) == a < MAX_RETRIES - 1

\* for attempt in range(MAX_RETRIES)
LoopContinues(a) == a < MAX_RETRIES

\* what the retry loops do with a response that is not a 200: every
\* RequestException and every status other than 200 is handled alike
RetriedFailure(r) == r.kind = "exc_request" \/ (r.kind = "http" /\ r.status # 200)

\* the trail of one failed attempt: the request, then the backoff sleep if any
FailureTrail(ev, a) ==
    IF SleepsBeforeRetry(a) THEN << ev, SleepEvent(BackoffDelay(a)) >> ELSE << ev >>

InitCollector ==
    /\ api_key \in BOOLEAN
    /\ pc = "idle"
    /\ point_idx = 0
    /\ attempt = 0
    /\ flow_result = NoFlow
    /\ traffic_data_row = NoRow
    /\ successful_points = 0
    /\ traffic_data = << >>
    /\ now = 0
    /\ events = << >>
    /\ attempted = << >>
    /\ finished = << >>

\* collect_data up to the loop: the counters are set, the first point is next
CollectData ==
    /\ pc = "idle"
    /\ successful_points' = 0
    /\ point_idx' = 1
    /\ pc' = IF Len(MONITOR_POINTS) = 0 THEN "done" ELSE "call"
    /\ attempted' = << >>
    /\ finished' = << >>
    /\ UNCHANGED << api_key, attempt, flow_result, traffic_data_row,
                    traffic_data, now, events >>
    /\ UNCHANGED << cache_vars, alert_vars, analysis, app_vars >>

\* collect_data calls get_traffic_data(point); without a key it returns None
\* before any request
GetTrafficDataCall ==
    /\ pc = "call"
    /\ attempted' = Append(attempted, point_idx)
    /\ events' = << >>
    /\ attempt' = 0
    /\ traffic_data_row' = NoRow
    /\ pc' = IF api_key THEN "flow" ELSE "returned"
    /\ UNCHANGED << api_key, point_idx, flow_result, successful_points,
                    traffic_data, now, finished >>
    /\ UNCHANGED << cache_vars, alert_vars, analysis, app_vars >>

\* one pass of the retry loop of get_traffic_data: one requests.get
FlowAttempt(r) ==
    /\ pc = "flow"
    /\ LoopContinues(attempt)
    /\ IF r.kind = "http" /\ r.status = 200
       THEN IF r.body = "malformed"
            THEN \* except Exception: break; return None
                 /\ events' = Append(events, FlowEvent(r))
                 /\ pc' = "returned"
                 /\ UNCHANGED << attempt, flow_result, traffic_data_row, now >>
            ELSE IF r.body = "segment"
            THEN \* data.get('flowSegmentData') is truthy: _get_incident_count
                 /\ events' = Append(events, FlowEvent(r))
                 /\ flow_result' = r
                 /\ attempt' = 0
                 /\ pc' = "incident"
                 /\ UNCHANGED << traffic_data_row, now >>
            ELSE \* no flowSegmentData: incidents 0, the dict holds None speeds
                 /\ events' = Append(events, FlowEvent(r))
                 /\ now' = now + 1
                 /\ traffic_data_row' =
                        SampleDict(MONITOR_POINTS[point_idx], r, 0, now')
                 /\ pc' = "returned"
                 /\ UNCHANGED << attempt, flow_result >>
       ELSE \* non-200 or RequestException: sleep unless last, next attempt
            /\ RetriedFailure(r)
            /\ events' = events \o FailureTrail(FlowEvent(r), attempt)
            /\ attempt' = attempt + 1
            /\ pc' = IF LoopContinues(attempt') THEN "flow" ELSE "returned"
            /\ UNCHANGED << flow_result, traffic_data_row, now >>
    /\ UNCHANGED << api_key, point_idx, successful_points, traffic_data,
                    attempted, finished >>
    /\ UNCHANGED << cache_vars, alert_vars, analysis, app_vars >>

\* a variant of the dict below in which a failed incident query fails the
\* whole call (not the code's; C30 tells the two apart)
NoSampleWithoutIncidents(point, flow, ts) == NoRow

\* _get_incident_count ran out of attempts and returned 0: the dict of the
\* flow response with traffic_incidents 0
SampleWithoutIncidents(point, flow, ts) == SampleDict(point, flow, 0, ts)

\* one pass of the retry loop of _get_incident_count, and, when it returns,
\* the return of get_traffic_data with the dict
IncidentAttempt(r) ==
    /\ pc = "incident"
    /\ LoopContinues(attempt)
    /\ IF r.kind = "http" /\ r.status = 200
       THEN \* len(data.get('incidents', [])), or 0 after except Exception: break
            /\ events' = Append(events, IncidentEvent(r))
            /\ now' = now + 1
            /\ traffic_data_row' =
                   SampleDict(MONITOR_POINTS[point_idx], flow_result,
                              IF r.body = "malformed" THEN 0 ELSE r.n, now')
            /\ pc' = "returned"
            /\ UNCHANGED attempt
       ELSE /\ RetriedFailure(r)
            /\ events' = events \o FailureTrail(IncidentEvent(r), attempt)
            /\ attempt' = attempt + 1
            /\ IF LoopContinues(attempt')
               THEN /\ pc' = "incident"
                    /\ UNCHANGED << traffic_data_row, now >>
               ELSE \* return 0
                    /\ now' = now + 1
                    /\ traffic_data_row' =
                           SampleWithoutIncidents(MONITOR_POINTS[point_idx],
                                                  flow_result, now')
                    /\ pc' = "returned"
    /\ UNCHANGED << api_key, point_idx, flow_result, successful_points,
                    traffic_data, attempted, finished >>
    /\ UNCHANGED << cache_vars, alert_vars, analysis, app_vars >>

\* save_traffic_data: the INSERT of the dict as it is
save_traffic_data(table, data) == Append(table, data)

\* a variant of the loop below with the try/except around the whole loop, so
\* that an error ends the run (not the code's; C3 tells the two apart)
AbortsRunOnError(idx, outcome) ==
    IF outcome # "error" /\ idx + 1 <= Len(MONITOR_POINTS) THEN "call" ELSE "done"

\* for point in MONITOR_POINTS, with the try/except inside the loop body: the
\* loop goes on to the next entry whatever happened to this one
AfterPoint(idx, outcome) ==
    IF idx + 1 <= Len(MONITOR_POINTS) THEN "call" ELSE "done"

\* how the loop body of collect_data ends for the dict it got
PointOutcome(row, db_ok) ==
    IF ~row.present THEN "nodata" ELSE IF db_ok THEN "saved" ELSE "error"

\* a variant of the counter below that counts the dict before it is saved
\* (not the code's; C20 tells the two apart)
CountsBeforeSaving(count, outcome) ==
    IF outcome # "nodata" THEN count + 1 ELSE count

\* successful_points += 1, which follows save_traffic_data in the try block
CountAfter(count, outcome) ==
    IF outcome = "saved" THEN count + 1 ELSE count

\* the rest of the loop body of collect_data and the step to the next point;
\* db_ok = FALSE: sqlite raises in save_traffic_data, collect_data catches it
FinishPoint(db_ok) ==
    /\ pc = "returned"
    /\ traffic_data_row.present \/ db_ok
    /\ LET outcome == PointOutcome(traffic_data_row, db_ok) IN
         /\ finished' = Append(finished, outcome)
         /\ traffic_data' =
                IF outcome = "saved"
                THEN save_traffic_data(traffic_data, traffic_data_row)
                ELSE traffic_data
         /\ successful_points' = CountAfter(successful_points, outcome)
         /\ pc' = AfterPoint(point_idx, outcome)
    /\ point_idx' = point_idx + 1
    \* the locals of the call that returned are gone
    /\ attempt' = 0
    /\ flow_result' = NoFlow
    /\ traffic_data_row' = NoRow
    /\ events' = << >>
    /\ UNCHANGED << api_key, now, attempted >>
    /\ UNCHANGED << cache_vars, alert_vars, analysis, app_vars >>

CollectorNext ==
    \/ CollectData
    \/ GetTrafficDataCall
    \/ \E r \in FlowResponses : FlowAttempt(r)
    \/ \E r \in IncidentResponses : IncidentAttempt(r)
    \/ \E db_ok \in BOOLEAN : FinishPoint(db_ok)

(***************************************************************************)
(* app.py: get_congestion and the congestion cache                         *)
(***************************************************************************)
\* how many get_congestion calls the counters of a model run count
MaxCalls == 3

\* the coordinates the model asks about: the first two monitored points, and
\* two coordinates 0.00004 and 0.00006 degree north of the first
QueryCoords ==
    { <<1297580, 7760450>>, <<1297584, 7760450>>, <<1297586, 7760450>>,
      <<1291770, 7762260>> }

\* the inputs ending in 5 (units of 1e-5) for which Python's round(x, 4) goes
\* up: the binary double nearest to the decimal lies above the midpoint
\* (round(77.60455, 4) = 77.6046, but round(12.97585, 4) = 12.9758)
TiesRoundingUp == { 7760455 }

\* round(x, 4): x in units of 1e-5, the result in units of 1e-4
Round4(x) ==
    LET q == x \div 10
        r == x % 10
    IN  IF r < 5 THEN q
        ELSE IF r > 5 THEN q + 1
        ELSE IF x \in TiesRoundingUp THEN q + 1 ELSE q

\* a variant of the key below that keeps the coordinates as they are (not
\* the code's; C17 tells the two apart)
UnroundedKey(lat, lon) == << lat, lon >>

\* key = f"{round(lat, 4)}_{round(lon, 4)}"
CacheKey(lat, lon) == << Round4(lat), Round4(lon) >>

NoPair == << None, None >>

\* a variant of the membership test below for a cache that is never consulted
\* (not the code's; C4 tells the two apart)
NeverHits(cache, key) == FALSE

\* if key in congestion_cache
CacheHit(cache, key) == key \in DOMAIN cache

\* congestion_cache[key] = (cs, ffs)
CachePut(cache, key, cs, ffs) ==
    [k \in DOMAIN cache \cup {key} |-> IF k = key THEN << cs, ffs >> ELSE cache[k]]

\* a lookup that stores whatever a 200 response holds
StoresAnyBody(r) == TRUE

\* data['flowSegmentData']['currentSpeed'] and ['freeFlowSpeed'] can be read
HasBothSpeeds(r) == r.body = "segment" /\ ~IsNone(r.cs) /\ ~IsNone(r.ffs)

InitCache ==
    /\ congestion_cache \in
          { << >>, [k \in {CacheKey(1291770, 7762260)} |-> << 40, 40 >>] }
    /\ cache_hits = 0
    /\ api_calls = 0
    /\ fetched = << >>
    /\ last_call = [lat |-> 0, lon |-> 0, ret |-> NoPair, requests |-> 0,
                    seen |-> FALSE, want |-> NoPair, polled |-> FALSE,
                    answer |-> NoFlow, before |-> congestion_cache]

\* one call get_congestion(lat, lon); r is what the upstream answers if asked.
\* last_call is the record of the call: what it returned, and as history the
\* answer of the upstream (NoFlow when it was not asked) and the cache before
get_congestion(lat, lon, r) ==
    LET key == CacheKey(lat, lon)
        c == << lat, lon >>
        seen == c \in DOMAIN fetched
        want == IF seen THEN fetched[c] ELSE NoPair
        polled == \E i \in 1..Len(traffic_data) :
                      traffic_data[i].latitude = lat /\ traffic_data[i].longitude = lon
    IN     IF CacheHit(congestion_cache, key)
           THEN /\ cache_hits' = cache_hits + 1
                /\ last_call' = [lat |-> lat, lon |-> lon,
                                 ret |-> congestion_cache[key], requests |-> 0,
                                 seen |-> seen, want |-> want, polled |-> polled,
                                 answer |-> NoFlow, before |-> congestion_cache]
                /\ UNCHANGED << congestion_cache, api_calls, fetched >>
           ELSE IF r.kind = "http" /\ r.status = 200
           THEN /\ api_calls' = api_calls + 1
                /\ IF HasBothSpeeds(r)
                   THEN /\ congestion_cache' =
                               CachePut(congestion_cache, key, r.cs, r.ffs)
                        /\ fetched' =
                               IF seen THEN fetched
                               ELSE [k \in DOMAIN fetched \cup {c} |->
                                        IF k = c THEN << r.cs, r.ffs >> ELSE fetched[k]]
                        /\ last_call' = [lat |-> lat, lon |-> lon,
                                         ret |-> << r.cs, r.ffs >>, requests |-> 1,
                                         seen |-> seen, want |-> want, polled |-> polled,
                                         answer |-> r, before |-> congestion_cache]
                   ELSE \* KeyError or a JSON error: except Exception
                        /\ last_call' = [lat |-> lat, lon |-> lon,
                                         ret |-> NoPair, requests |-> 1,
                                         seen |-> seen, want |-> want, polled |-> polled,
                                         answer |-> r, before |-> congestion_cache]
                        /\ UNCHANGED << congestion_cache, fetched >>
                /\ UNCHANGED cache_hits
           ELSE \* non-200, or requests.get raised
                /\ last_call' = [lat |-> lat, lon |-> lon,
                                 ret |-> NoPair, requests |-> 1,
                                 seen |-> seen, want |-> want, polled |-> polled,
                                 answer |-> r, before |-> congestion_cache]
                /\ UNCHANGED << congestion_cache, cache_hits, api_calls, fetched >>

\* a caller that looks up one coordinate
CacheNext ==
    /\ cache_hits + api_calls < MaxCalls
    /\ \E c \in QueryCoords : \E r \in FlowResponses : get_congestion(c[1], c[2], r)
    /\ UNCHANGED << collector_vars, now, alert_vars, analysis, app_vars >>

(***************************************************************************)
(* traffic_alerts.py                                                       *)
(***************************************************************************)
\* timedelta(hours=1), in clock ticks
HourTicks == 10

\* how many check_for_alerts passes a model run makes
MaxPasses == 2

severe_congestion_threshold == 80

high_incident_threshold == 3

\* speed_reduction_threshold = 0.4, as a percentage
speed_reduction_threshold_pct == 40

RECURSIVE Reverse(_)
Reverse(seq) ==
    IF seq = << >> THEN << >> ELSE Append(Reverse(Tail(seq)), Head(seq))

IsRecent(row, t) == row.timestamp > t - HourTicks

\* SELECT * FROM traffic_data WHERE timestamp > one_hour_ago
\* ORDER BY timestamp DESC (the table is in ascending timestamp order)
RecentRows(table, t) ==
    Reverse(SelectSeq(table, LAMBDA row : IsRecent(row, t)))

\* a traffic index num / den, den > 0
Ratio(num, den) == [num |-> num, den |-> den]

\* if free_flow_speed > 0 and current_speed > 0 (a NaN compares False)
SpeedsUsable(cs, ffs) == ffs > 0 /\ cs > 0

\* traffic_index = max(0, min(100, 100 * (1 - speed_ratio))), else 0
AlertTrafficIndex(cs, ffs) ==
    IF SpeedsUsable(cs, ffs)
    THEN Ratio(Max(0, Min(100 * ffs, 100 * (ffs - cs))), ffs)
    ELSE Ratio(0, 1)

\* if traffic_index >= self.severe_congestion_threshold
CongestionFires(cs, ffs) ==
    LET ti == AlertTrafficIndex(cs, ffs)
    IN  ti.num >= severe_congestion_threshold * ti.den

\* severity = min(int(traffic_index / 10), 10)
CongestionSeverity(cs, ffs) ==
    LET ti == AlertTrafficIndex(cs, ffs)
    IN  Min(ti.num \div (10 * ti.den), 10)

\* if incidents >= self.high_incident_threshold
IncidentsFire(incidents) == incidents >= high_incident_threshold

\* a variant of the severity below without the cap at 10 (not the code's; C9
\* tells the two apart)
UncappedIncidentSeverity(incidents) == incidents

\* severity = min(incidents, 10)
IncidentSeverity(incidents) == Min(incidents, 10)

\* a variant of the rule below with a strict comparison (not the code's; C8
\* tells the two apart at the ratio 0.4)
StrictSpeedReduction(cs, ffs) ==
    SpeedsUsable(cs, ffs) /\ 100 * cs < speed_reduction_threshold_pct * ffs

\* if current_speed / free_flow_speed <= self.speed_reduction_threshold,
\* under the guard free_flow_speed > 0 and current_speed > 0
SpeedReductionFires(cs, ffs) ==
    SpeedsUsable(cs, ffs) /\ 100 * cs <= speed_reduction_threshold_pct * ffs

\* severity = min(int((1 - current_speed / free_flow_speed) * 10), 10)
SpeedReductionSeverity(cs, ffs) == Min((10 * (ffs - cs)) \div ffs, 10)

\* sample is the timestamp of the sample the alert is about (history)
Alert(row, type, severity) ==
    [point_name |-> row.point_name, alert_type |-> type, severity |-> severity,
     sample |-> row.timestamp]

\* the alerts one iteration of the loop appends, in the order of the code
RowAlerts(row) ==
    LET cs == row.current_speed
        ffs == row.free_flow_speed
        inc == row.traffic_incidents
    IN  (IF CongestionFires(cs, ffs)
         THEN << Alert(row, "CONGESTION", CongestionSeverity(cs, ffs)) >> ELSE << >>)
        \o (IF IncidentsFire(inc)
            THEN << Alert(row, "INCIDENTS", IncidentSeverity(inc)) >> ELSE << >>)
        \o (IF SpeedReductionFires(cs, ffs)
            THEN << Alert(row, "SPEED_REDUCTION", SpeedReductionSeverity(cs, ffs)) >>
            ELSE << >>)

RECURSIVE EvaluateRows(_)
EvaluateRows(rows) ==
    IF rows = << >> THEN << >> ELSE RowAlerts(Head(rows)) \o EvaluateRows(Tail(rows))

\* read_sql_query gives a column that is NULL in every row as Python None
\* objects, not as NaN; the first comparison of such a value with 0 raises
\* TypeError
AllNullColumn(rows) ==
    \/ \A i \in 1..Len(rows) : IsNone(rows[i].free_flow_speed)
    \/ /\ \A i \in 1..Len(rows) : IsNone(rows[i].current_speed)
       /\ \E i \in 1..Len(rows) : rows[i].free_flow_speed > 0

\* the INSERTs of _save_alerts, one transaction
AlertRows(list, ts) ==
    [i \in 1..Len(list) |->
        [point_name |-> list[i].point_name, alert_type |-> list[i].alert_type,
         severity |-> list[i].severity, timestamp |-> ts, notified |-> 0,
         sample |-> list[i].sample]]

\* UPDATE traffic_alerts SET notified = 1
\* WHERE point_name = ? AND alert_type = ? AND timestamp = ?, for each alert
MarkNotified(table, list, ts) ==
    [i \in 1..Len(table) |->
        IF \E j \in 1..Len(list) :
               /\ table[i].point_name = list[j].point_name
               /\ table[i].alert_type = list[j].alert_type
               /\ table[i].timestamp = ts
        THEN [table[i] EXCEPT !.notified = 1]
        ELSE table[i]]

NoPass ==
    [returned |-> "-", saved |-> FALSE, save_ts |-> 0, dispatched |-> FALSE]

InitAlerts ==
    /\ email_configured \in BOOLEAN
    /\ traffic_alerts = << >>
    /\ alert_pc = "idle"
    /\ alerts = << >>
    /\ recent_data = << >>
    /\ passes = 0
    /\ last_pass = NoPass
    /\ analysis = [fn |-> "-", rows |-> {}]

\* check_for_alerts up to the dispatch.  db_ok = FALSE: the transaction of
\* _save_alerts fails (caught and printed there); none_raises: whether a
\* column of None objects makes the comparison raise
CheckForAlerts(db_ok, none_raises) ==
    /\ alert_pc = "idle"
    /\ passes < MaxPasses
    /\ passes' = passes + 1
    /\ LET t1 == now + 1
           rows == RecentRows(traffic_data, t1)
           found == EvaluateRows(rows)
       IN  /\ recent_data' = rows
           /\ IF rows = << >>
              THEN \* recent_data.empty: return
                   /\ now' = t1
                   /\ alerts' = << >>
                   /\ last_pass' = [NoPass EXCEPT !.returned = "None"]
                   /\ UNCHANGED << traffic_alerts, alert_pc >>
              ELSE IF AllNullColumn(rows) /\ none_raises
              THEN /\ now' = t1
                   /\ alerts' = << >>
                   /\ last_pass' = [NoPass EXCEPT !.returned = "TypeError"]
                   /\ UNCHANGED << traffic_alerts, alert_pc >>
              ELSE IF found = << >>
              THEN /\ now' = t1
                   /\ alerts' = << >>
                   /\ last_pass' = [NoPass EXCEPT !.returned = "list"]
                   /\ UNCHANGED << traffic_alerts, alert_pc >>
              ELSE \* _save_alerts, then the dispatch if email is configured
                   /\ now' = t1 + 1
                   /\ alerts' = found
                   /\ traffic_alerts' =
                          IF db_ok THEN traffic_alerts \o AlertRows(found, now')
                          ELSE traffic_alerts
                   /\ alert_pc' = IF email_configured THEN "dispatch" ELSE "idle"
                   /\ last_pass' =
                          [returned |-> IF email_configured THEN "-" ELSE "list",
                           saved |-> db_ok, save_ts |-> now', dispatched |-> FALSE]
    /\ UNCHANGED << email_configured, analysis, collector_vars, cache_vars, app_vars >>

\* _send_alert_email and the return of check_for_alerts.  smtp_ok = FALSE: the
\* SMTP session raises (caught and printed), the UPDATE is not reached
SendAlertEmail(smtp_ok) ==
    /\ alert_pc = "dispatch"
    /\ IF smtp_ok
       THEN /\ now' = now + 1
            /\ traffic_alerts' = MarkNotified(traffic_alerts, alerts, now')
       ELSE UNCHANGED << now, traffic_alerts >>
    /\ last_pass' = [last_pass EXCEPT !.returned = "list", !.dispatched = smtp_ok]
    /\ alert_pc' = "idle"
    /\ UNCHANGED << email_configured, alerts, recent_data, passes, analysis >>
    /\ UNCHANGED << collector_vars, cache_vars, app_vars >>

\* an hour goes by between two passes
WaitAnHour ==
    /\ alert_pc = "idle"
    /\ now < HourTicks
    /\ now' = now + HourTicks
    /\ UNCHANGED << email_configured, traffic_alerts, alert_pc, alerts,
                    recent_data, passes, last_pass, analysis >>
    /\ UNCHANGED << collector_vars, cache_vars, app_vars >>

(***************************************************************************)
(* traffic_analyzer.py                                                     *)
(* Every stored sample of a model run lies within the last 24 hours and    *)
(* the last 7 days, and there are fewer points than the LIMIT of           *)
(* get_worst_performing_routes; the order of the returned rows is not      *)
(* modelled (a frame is the set of its rows).                              *)
(***************************************************************************)
RECURSIVE SumSeq(_)
SumSeq(seq) == IF seq = << >> THEN 0 ELSE Head(seq) + SumSeq(Tail(seq))

\* the non-NULL values of a column, which is what AVG() averages
SpeedsOf(rows) ==
    SelectSeq([i \in 1..Len(rows) |-> rows[i].current_speed],
              LAMBDA v : ~IsNone(v))

FreeFlowsOf(rows) ==
    SelectSeq([i \in 1..Len(rows) |-> rows[i].free_flow_speed],
              LAMBDA v : ~IsNone(v))

\* n / d rounded to the nearest integer, halves to the even one (d > 0)
RoundHalfEven(n, d) ==
    LET q == n \div d
        r == n - q * d
    IN  IF 2 * r < d THEN q
        ELSE IF 2 * r > d THEN q + 1
        ELSE IF q % 2 = 0 THEN q ELSE q + 1

NotANumber == Ratio(None, 1)

\* a variant of the index below that sets the total of the speeds, not their
\* average, against the average free-flow speed (not the code's; C26 tells
\* the two apart)
GroupIndexOfTotals(rows) ==
    LET S == SumSeq(SpeedsOf(rows))
        F == SumSeq(FreeFlowsOf(rows))
        nF == Len(FreeFlowsOf(rows))
    IN  IF Len(SpeedsOf(rows)) = 0 \/ nF = 0 \/ F <= 0 THEN NotANumber
        ELSE Ratio(100 * (F - S * nF), F)

\* 100 * (1 - avg_speed / avg_free_flow) for the rows of one group, as the
\* exact fraction; NaN when an average is NULL or the division is 0 / 0
GroupIndex(rows) ==
    LET S == SumSeq(SpeedsOf(rows))
        nS == Len(SpeedsOf(rows))
        F == SumSeq(FreeFlowsOf(rows))
        nF == Len(FreeFlowsOf(rows))
    IN  IF nS = 0 \/ nF = 0 \/ F <= 0 THEN NotANumber
        ELSE Ratio(100 * (nS * F - S * nF), nS * F)

\* df['traffic_index'].clip(0, 100)
Clip0To100(x) ==
    IF IsNone(x.num) THEN x
    ELSE Ratio(Max(0, Min(100 * x.den, x.num)), x.den)

\* df['traffic_index'].round(1): the index in tenths
Round1(x) ==
    IF IsNone(x.num) THEN x ELSE Ratio(RoundHalfEven(10 * x.num, x.den), 10)

HourOf(row) == row.timestamp \div HourTicks

\* get_traffic_trends(): GROUP BY point_name, date, hour
get_traffic_trends(table) ==
    { [point_name |-> g[1], hour |-> g[2],
       traffic_index |->
          Clip0To100(GroupIndex(SelectSeq(table,
              LAMBDA row : row.point_name = g[1] /\ HourOf(row) = g[2])))] :
      g \in { << table[i].point_name, HourOf(table[i]) >> : i \in 1..Len(table) } }

\* get_worst_performing_routes(): GROUP BY point_name, no clip
get_worst_performing_routes(table) ==
    { [point_name |-> g, hour |-> 0,
       traffic_index |->
          Round1(GroupIndex(SelectSeq(table, LAMBDA row : row.point_name = g)))] :
      g \in { table[i].point_name : i \in 1..Len(table) } }

GetTrafficTrends ==
    /\ analysis' = [fn |-> "get_traffic_trends", rows |-> get_traffic_trends(traffic_data)]
    /\ UNCHANGED << collector_vars, now, cache_vars, alert_vars, app_vars >>

GetWorstPerformingRoutes ==
    /\ analysis' = [fn |-> "get_worst_performing_routes",
                    rows |-> get_worst_performing_routes(traffic_data)]
    /\ UNCHANGED << collector_vars, now, cache_vars, alert_vars, app_vars >>

(***************************************************************************)
(* app.py: the schedule tables and find_routes_between                     *)
(***************************************************************************)
\* how many stops the trip whose stop sequence varies visits at most
MaxStops == 3

\* stops_df in file order: stop_lat and stop_lon in units of 1e-5 degree.
\* Two stops carry the same name (the two sides of one road).
stops_df ==
    << [stop_id |-> 1, stop_name |-> "Majestic",   stop_lat |-> 1297580, stop_lon |-> 7760450],
       [stop_id |-> 2, stop_name |-> "Silk Board", stop_lat |-> 1291770, stop_lon |-> 7762260],
       [stop_id |-> 3, stop_name |-> "Hebbal",     stop_lat |-> 1289990, stop_lon |-> 7762070],
       [stop_id |-> 4, stop_name |-> "Majestic",   stop_lat |-> 1297586, stop_lon |-> 7760450] >>

StopIds == { stops_df[i].stop_id : i \in 1..Len(stops_df) }

\* str.lower() on the names the model uses
Lower ==
    [n \in { "Majestic", "MAJESTIC", "majestic", "Silk Board", "silk board",
             "Hebbal", "hebbal", "Nowhere", "nowhere" } |->
        CASE n \in { "Majestic", "MAJESTIC", "majestic" } -> "majestic"
          [] n \in { "Silk Board", "silk board" } -> "silk board"
          [] n \in { "Hebbal", "hebbal" } -> "hebbal"
          [] OTHER -> "nowhere"]

\* the names a request may carry
QueryNames == { "MAJESTIC", "silk board", "Hebbal", "Nowhere" }

\* the trips of the schedule, in ascending order of trip_id
TripIds == << 101, 102 >>

\* the rows of stop_times_df for a trip that visits the stops of seq in order
TripRows(trip_id, seq) ==
    { [trip_id |-> trip_id, stop_sequence |-> i, stop_id |-> seq[i]] :
        i \in 1..Len(seq) }

StopSequences == UNION { [1..n -> StopIds] : n \in 0..MaxStops }

\* the stop_times tables of the model: trip 101 visits any sequence of at most
\* MaxStops stops, trip 102 is absent or runs between stops 1 and 2
Schedules ==
    { TripRows(101, s1) \cup TripRows(102, s2) :
        s1 \in StopSequences, s2 \in { << >>, << 1, 2 >>, << 2, 1 >> } }

\* stops_df[stops_df['stop_name'].str.lower() == stop_name.lower()]
MatchingStops(stop_name) ==
    SelectSeq(stops_df, LAMBDA st : Lower[st.stop_name] = Lower[stop_name])

\* match['stop_id'].iloc[0] if not match.empty else None
get_stop_id_by_name(stop_name) ==
    LET match == MatchingStops(stop_name)
    IN  IF match # << >> THEN match[1].stop_id ELSE None

\* not x, for a stop id or None
Falsy(x) == x = None \/ x = 0

\* sort_values('stop_sequence') on the rows of one trip
RECURSIVE SortBySequence(_)
SortBySequence(rows) ==
    IF rows = {} THEN << >>
    ELSE LET first == CHOOSE r \in rows :
                          \A q \in rows : r.stop_sequence <= q.stop_sequence
         IN  << first >> \o SortBySequence(rows \ {first})

\* group.sort_values('stop_sequence')['stop_id'].tolist()
StopIdsOfTrip(table, trip_id) ==
    LET sorted == SortBySequence({ r \in table : r.trip_id = trip_id })
    IN  [i \in 1..Len(sorted) |-> sorted[i].stop_id]

\* x in stop_ids
Contains(seq, x) == \E i \in 1..Len(seq) : seq[i] = x

\* stop_ids.index(x): the first position of x
IndexOf(seq, x) ==
    CHOOSE i \in 1..Len(seq) : seq[i] = x /\ \A j \in 1..(i - 1) : seq[j] # x

\* if source_id in stop_ids and dest_id in stop_ids:
\*     if stop_ids.index(source_id) < stop_ids.index(dest_id)
TripQualifies(stop_ids, source_id, dest_id) ==
    /\ Contains(stop_ids, source_id)
    /\ Contains(stop_ids, dest_id)
    /\ IndexOf(stop_ids, source_id) < IndexOf(stop_ids, dest_id)

\* the trip ids stop_times_df.groupby('trip_id') yields, in its (ascending)
\* order
GroupedTrips(table) ==
    SelectSeq(TripIds, LAMBDA t : \E r \in table : r.trip_id = t)

find_routes_between(table, source_name, dest_name) ==
    LET source_id == get_stop_id_by_name(source_name)
        dest_id == get_stop_id_by_name(dest_name)
    IN  IF Falsy(source_id) \/ Falsy(dest_id) THEN << >>
        ELSE SelectSeq(GroupedTrips(table),
                       LAMBDA t : TripQualifies(StopIdsOfTrip(table, t),
                                                source_id, dest_id))

NoQuery == [called |-> FALSE, source |-> "Nowhere", dest |-> "Nowhere", ret |-> << >>]

\* the tables as loaded at import time, no request served yet
InitRoutes ==
    /\ stop_times = TripRows(101, << 1, 2, 3 >>) \cup TripRows(102, << 2, 1 >>)
    /\ last_search = NoQuery

\* one call find_routes_between(source_name, dest_name)
FindRoutesBetween(source_name, dest_name) ==
    /\ last_search' = [called |-> TRUE, source |-> source_name, dest |-> dest_name,
                 ret |-> find_routes_between(stop_times, source_name, dest_name)]
    /\ UNCHANGED stop_times
    /\ UNCHANGED << collector_vars, now, cache_vars, alert_vars, analysis, eval_vars,
                    scenario_vars >>

(***************************************************************************)
(* app.py: evaluate_routes and get_estimated_times.  Speeds are integers;  *)
(* the quotients the code forms from them are kept as exact fractions      *)
(* num / den in lowest terms.  For the speeds of AppPairs every quotient,  *)
(* sum and mean the code forms is a multiple of 1/4 or has no tie at the   *)
(* second decimal, so that the floating-point results round to the same    *)
(* hundredths as the exact ones.                                           *)
(***************************************************************************)
RECURSIVE GCD(_, _)
GCD(a, b) == IF b = 0 THEN a ELSE GCD(b, a % b)

Abs(x) == IF x < 0 THEN -x ELSE x

\* the fraction n / d (d > 0) in lowest terms
Rat(n, d) ==
    LET g == GCD(Abs(n), d) IN Ratio(n \div g, d \div g)

AddRat(a, b) == Rat(a.num * b.den + b.num * a.den, a.den * b.den)

Zero == Rat(0, 1)

RECURSIVE SumRat(_)
SumRat(seq) == IF seq = << >> THEN Zero ELSE AddRat(Head(seq), SumRat(Tail(seq)))

\* round(x, 2), in hundredths
Round2(x) == RoundHalfEven(100 * x.num, x.den)

\* the (currentSpeed, freeFlowSpeed) pairs the upstream answers a route
\* lookup with: free flow, half speed, standstill, a negative speed, faster
\* than free flow, no free-flow speed
AppPairs ==
    { << 30, 30 >>, << 15, 30 >>, << 0, 30 >>, << -15, 30 >>, << 45, 30 >>,
      << 15, 0 >> }

\* what requests.get(url) in get_congestion can come to
AppResponses ==
    { [kind |-> "exc_request", status |-> 0, body |-> "-", cs |-> None, ffs |-> None] }
    \cup { [kind |-> "http", status |-> 200, body |-> "segment",
            cs |-> p[1], ffs |-> p[2]] : p \in AppPairs }

\* the truth value of a speed: None and 0 are false
Truthy(x) == x # None /\ x # 0

\* the stops of stops_df with this stop_id
StopData(stop_id) == SelectSeq(stops_df, LAMBDA st : st.stop_id = stop_id)

\* get_ordered_stops_for_trip: the stops of the trip in stop_sequence order,
\* those missing from stops_df left out (every stop_lat and stop_lon of the
\* model's stops_df converts to a float)
get_ordered_stops_for_trip(table, trip_id) ==
    LET ids == StopIdsOfTrip(table, trip_id)
        known == SelectSeq(ids, LAMBDA id : StopData(id) # << >>)
    IN  [i \in 1..Len(known) |->
            LET stop == StopData(known[i])[1]
            IN  [stop_id |-> known[i], stop_name |-> stop.stop_name,
                 lat |-> stop.stop_lat, lon |-> stop.stop_lon]]

\* (1 - current_speed / free_speed) * 1.5, in minutes
DelayMinutes(cs, ffs) == Rat(3 * (ffs - cs), 2 * ffs)

\* max(0, 100 - (current_speed / free_speed * 100))
StopCongestion(cs, ffs) == Rat(Max(0, 100 * (ffs - cs)), ffs)

\* evaluate_routes: if current_speed and free_speed and free_speed > 0
StopCounts(cs, ffs) == Truthy(cs) /\ Truthy(ffs) /\ ffs > 0

\* get_estimated_times: if current_speed and free_speed
HasSpeedData(cs, ffs) == Truthy(cs) /\ Truthy(ffs)

\* a variant of the clock below on which a stop without speed data costs the
\* delay of a standstill (not the code's; C16 tells the two apart)
ClockChargingMissingData(t, cs, ffs) ==
    IF HasSpeedData(cs, ffs) THEN AddRat(t, DelayMinutes(cs, ffs))
    ELSE AddRat(t, Rat(3, 2))

\* current_time += datetime.timedelta(minutes=delay_factor), under the if
ClockAfter(t, cs, ffs) ==
    IF HasSpeedData(cs, ffs) THEN AddRat(t, DelayMinutes(cs, ffs)) ELSE t

\* an entry of times: "N/A", or the minute of the day strftime("%H:%M") shows
NA == [na |-> TRUE, hhmm |-> 0]

\* current_time.strftime("%H:%M"): the seconds are dropped, the day wraps
FormatHHMM(t) == [na |-> FALSE, hhmm |-> (t.num \div t.den) % 1440]

\* the times get_estimated_times may read from datetime.now(), in minutes of
\* the day: 10:00 and 23:59
BaseTimes == { 600, 1439 }

\* trips_df and routes_df: route_long_name of the route of a trip
RouteNameOf(trip_id) == IF trip_id = 101 THEN "Majestic - Hebbal" ELSE "Silk Board - Majestic"

\* the lists of trip ids evaluate_routes is called with
TripLists == { << 101 >>, << 101, 102 >>, << 102, 101 >> }

NoPairsSeen == [eta |-> << >>, stops |-> << >>]

\* the file holds a JSON document (whole) with these entries; an empty file or
\* a cut-off document is not whole.  No file is the same to the loader as a
\* file with no entries.
Snapshot(table) == [data |-> table, whole |-> TRUE]

InitEvaluate ==
    /\ eval_pc = "idle"
    /\ trip_ids = << >>
    /\ trip_pos = 0
    /\ stops = << >>
    /\ stop_pos = 0
    /\ base_time = 0
    /\ current_time = Zero
    /\ times = << >>
    /\ total_delay = Zero
    /\ congestion_values = << >>
    /\ seen_pairs = NoPairsSeen
    /\ route_scores = << >>
    /\ result = << >>
    /\ cache_file = Snapshot(congestion_cache)
    /\ snapshot_before = Snapshot(congestion_cache)
    /\ trip_log = << >>

\* the top of the loop body for the trip at position pos, up to the entry of
\* get_estimated_times, or the end of the loop
BeginTrip(pos, ids, base) ==
    /\ trip_pos' = pos
    /\ total_delay' = Zero
    /\ congestion_values' = << >>
    /\ times' = << >>
    /\ seen_pairs' = NoPairsSeen
    /\ stop_pos' = 1
    /\ IF pos <= Len(ids)
       THEN /\ stops' = get_ordered_stops_for_trip(stop_times, ids[pos])
            /\ base_time' = base
            /\ current_time' = Rat(base, 1)
            /\ eval_pc' = "eta"
       ELSE /\ stops' = << >>
            /\ eval_pc' = "flush"
            /\ UNCHANGED << base_time, current_time >>

\* evaluate_routes(trip_ids) is called
EvaluateRoutes(ids, base) ==
    /\ eval_pc = "idle"
    /\ trip_ids' = ids
    /\ route_scores' = << >>
    /\ BeginTrip(1, ids, base)
    /\ UNCHANGED << result, cache_file, snapshot_before, trip_log >>
    /\ UNCHANGED << collector_vars, now, cache_vars, alert_vars, analysis, route_vars,
                    scenario_vars >>

\* get_estimated_times: one turn of its loop
EtaStep(r) ==
    /\ eval_pc = "eta"
    /\ stop_pos <= Len(stops)
    /\ get_congestion(stops[stop_pos].lat, stops[stop_pos].lon, r)
    /\ LET current_speed == last_call'.ret[1]
           free_speed == last_call'.ret[2]
       IN  /\ seen_pairs' = [seen_pairs EXCEPT !.eta = Append(@, last_call'.ret)]
           /\ current_time' = ClockAfter(current_time, current_speed, free_speed)
           /\ times' = Append(times, IF HasSpeedData(current_speed, free_speed)
                                     THEN FormatHHMM(current_time')
                                     ELSE NA)
    /\ stop_pos' = stop_pos + 1
    /\ UNCHANGED << eval_pc, trip_ids, trip_pos, stops, base_time, total_delay,
                    congestion_values, route_scores, result, cache_file,
                    snapshot_before, trip_log >>
    /\ UNCHANGED << collector_vars, now, alert_vars, analysis, route_vars,
                    scenario_vars >>

\* get_estimated_times returns times, the loop over the stops begins
EtaReturn ==
    /\ eval_pc = "eta"
    /\ stop_pos > Len(stops)
    /\ eval_pc' = "stops"
    /\ stop_pos' = 1
    /\ UNCHANGED << trip_ids, trip_pos, stops, base_time, current_time, times,
                    total_delay, congestion_values, seen_pairs, route_scores,
                    result, cache_file, snapshot_before, trip_log >>
    /\ UNCHANGED << collector_vars, now, cache_vars, alert_vars, analysis, route_vars,
                    scenario_vars >>

\* evaluate_routes: one turn of for stop in stops
StopStep(r) ==
    /\ eval_pc = "stops"
    /\ stop_pos <= Len(stops)
    /\ get_congestion(stops[stop_pos].lat, stops[stop_pos].lon, r)
    /\ LET current_speed == last_call'.ret[1]
           free_speed == last_call'.ret[2]
       IN  /\ seen_pairs' = [seen_pairs EXCEPT !.stops = Append(@, last_call'.ret)]
           /\ IF StopCounts(current_speed, free_speed)
              THEN /\ congestion_values' =
                          Append(congestion_values,
                                 StopCongestion(current_speed, free_speed))
                   /\ total_delay' =
                          AddRat(total_delay, DelayMinutes(current_speed, free_speed))
              ELSE UNCHANGED << congestion_values, total_delay >>
    /\ stop_pos' = stop_pos + 1
    /\ UNCHANGED << eval_pc, trip_ids, trip_pos, stops, base_time, current_time,
                    times, route_scores, result, cache_file, snapshot_before,
                    trip_log >>
    /\ UNCHANGED << collector_vars, now, alert_vars, analysis, route_vars,
                    scenario_vars >>

\* sum(congestion_values) / len(congestion_values)
Mean(values) ==
    LET total == SumRat(values) IN Rat(total.num, total.den * Len(values))

\* the dict appended to route_scores; avg_congestion and est_delay_min in
\* hundredths
RouteScore(trip_id) ==
    [route_name |-> RouteNameOf(trip_id),
     trip_id |-> trip_id,
     stops |-> Len(stops),
     avg_congestion |-> Round2(Mean(congestion_values)),
     est_delay_min |-> Round2(total_delay),
     coordinates |-> [i \in 1..Len(stops) |-> << stops[i].lat, stops[i].lon >>],
     congestion_values |-> congestion_values,
     etas |-> times]

\* evaluate_routes: the end of the loop body (if congestion_values) and the
\* step to the next trip
EndTrip(base) ==
    /\ eval_pc = "stops"
    /\ stop_pos > Len(stops)
    /\ route_scores' =
          IF congestion_values # << >>
          THEN Append(route_scores, RouteScore(trip_ids[trip_pos]))
          ELSE route_scores
    /\ trip_log' =
          Append(trip_log,
                 [trip_id |-> trip_ids[trip_pos], base_time |-> base_time,
                  etas |-> times, eta_pairs |-> seen_pairs.eta,
                  stop_pairs |-> seen_pairs.stops,
                  reported |-> congestion_values # << >>])
    /\ BeginTrip(trip_pos + 1, trip_ids, base)
    /\ UNCHANGED << trip_ids, result, cache_file, snapshot_before >>
    /\ UNCHANGED << collector_vars, now, cache_vars, alert_vars, analysis, route_vars,
                    scenario_vars >>

\* a variant of the order below that lets a later element pass an earlier one
\* of the same key (not the code's; C15 tells the two apart)
StaysBehindStrictly(earlier_key, later_key) == earlier_key < later_key

\* sorted() is stable: an element stays in front of a later one unless its
\* key is larger
StaysInFront(earlier_key, later_key) == earlier_key <= later_key

\* the list with x put behind the elements that stay in front of it
RECURSIVE InsertByDelay(_, _)
InsertByDelay(sorted, x) ==
    IF sorted = << >> THEN << x >>
    ELSE IF StaysInFront(Head(sorted).est_delay_min, x.est_delay_min)
         THEN << Head(sorted) >> \o InsertByDelay(Tail(sorted), x)
         ELSE << x >> \o sorted

\* sorted(route_scores, key=lambda x: x['est_delay_min'])
RECURSIVE SortedByDelay(_)
SortedByDelay(scores) ==
    IF scores = << >> THEN << >>
    ELSE InsertByDelay(SortedByDelay(SubSeq(scores, 1, Len(scores) - 1)),
                       scores[Len(scores)])

\* open(CACHE_FILE, "w"): the file is cut to length 0
OpenCacheFile ==
    /\ eval_pc = "flush"
    /\ snapshot_before' = cache_file
    /\ cache_file' = [data |-> << >>, whole |-> FALSE]
    /\ eval_pc' = "writing"
    /\ UNCHANGED << trip_ids, trip_pos, stops, stop_pos, base_time, current_time,
                    times, total_delay, congestion_values, seen_pairs,
                    route_scores, result, trip_log >>
    /\ UNCHANGED << collector_vars, now, cache_vars, alert_vars, analysis, route_vars,
                    scenario_vars >>

\* json.dump writes the document piece by piece: the next entry reaches the
\* file
WriteEntry ==
    /\ eval_pc = "writing"
    /\ DOMAIN cache_file.data # DOMAIN congestion_cache
    /\ LET key == CHOOSE k \in DOMAIN congestion_cache : k \notin DOMAIN cache_file.data
       IN  cache_file' =
              [data |-> [k \in DOMAIN cache_file.data \cup {key} |-> congestion_cache[k]],
               whole |-> FALSE]
    /\ UNCHANGED << eval_pc, trip_ids, trip_pos, stops, stop_pos, base_time,
                    current_time, times, total_delay, congestion_values,
                    seen_pairs, route_scores, result, snapshot_before, trip_log >>
    /\ UNCHANGED << collector_vars, now, cache_vars, alert_vars, analysis, route_vars,
                    scenario_vars >>

\* the document is complete, the with block closes the file, and
\* evaluate_routes returns the sorted list
CloseAndReturn ==
    /\ eval_pc = "writing"
    /\ DOMAIN cache_file.data = DOMAIN congestion_cache
    /\ cache_file' = [cache_file EXCEPT !.whole = TRUE]
    /\ result' = SortedByDelay(route_scores)
    /\ eval_pc' = "done"
    /\ UNCHANGED << trip_ids, trip_pos, stops, stop_pos, base_time, current_time,
                    times, total_delay, congestion_values, seen_pairs,
                    route_scores, snapshot_before, trip_log >>
    /\ UNCHANGED << collector_vars, now, cache_vars, alert_vars, analysis, route_vars,
                    scenario_vars >>

\* the process is stopped (a signal, a reload of the debug server, a full
\* disk raising in write) between open and close
Interrupt ==
    /\ eval_pc \in { "flush", "writing" }
    /\ eval_pc' = "killed"
    /\ UNCHANGED << trip_ids, trip_pos, stops, stop_pos, base_time, current_time,
                    times, total_delay, congestion_values, seen_pairs,
                    route_scores, result, cache_file, snapshot_before, trip_log >>
    /\ UNCHANGED << collector_vars, now, cache_vars, alert_vars, analysis, route_vars,
                    scenario_vars >>

EvaluateNext ==
    \/ \E ids \in TripLists : \E base \in BaseTimes : EvaluateRoutes(ids, base)
    \/ \E r \in AppResponses : EtaStep(r)
    \/ EtaReturn
    \/ \E r \in AppResponses : StopStep(r)
    \/ \E base \in { b \in BaseTimes : b >= base_time } : EndTrip(base)
    \/ OpenCacheFile
    \/ WriteEntry
    \/ CloseAndReturn
    \/ Interrupt

\* no second collection run and no concurrent request
NoFirstRun == [done |-> FALSE, earlier |-> 0, table |-> << >>, finished |-> << >>]

InitRerun ==
    /\ upstream = << >>
    /\ first_run = NoFirstRun

InitWorkers ==
    /\ workers = << >>
    /\ overlap = FALSE

InitApp == InitRoutes /\ InitEvaluate /\ InitRerun /\ InitWorkers

(***************************************************************************)
(* The database the alert engine and the analyzer find: what earlier       *)
(* collection runs stored.  A sample is <<current_speed, free_flow_speed,  *)
(* traffic_incidents>>; the i-th row was stored at tick i.                 *)
(***************************************************************************)
\* how many samples the stored table holds at most
MaxRows == 2

StoredSamples ==
    { << 10, 50, 0 >>, << 45, 50, 12 >>, << 0, 50, 3 >>, << 60, 50, 0 >>,
      << 20, 50, 2 >>, << None, None, 0 >> }

StoredPoints == { ConfiguredPoints[1], ConfiguredPoints[2] }

StoredRow(point, sample, ts) ==
    [point_name |-> point.name, latitude |-> point.lat, longitude |-> point.lon,
     timestamp |-> ts, current_speed |-> sample[1], free_flow_speed |-> sample[2],
     traffic_incidents |-> sample[3], present |-> TRUE]

StoredTables ==
    UNION { { [i \in 1..n |-> StoredRow(ps[i], ss[i], i)] :
                ps \in [1..n -> StoredPoints], ss \in [1..n -> StoredSamples] } :
            n \in 0..MaxRows }

Init == InitCollector /\ InitCache /\ InitAlerts /\ InitApp

\* the collector has run before and is not running
InitStored ==
    /\ api_key = TRUE
    /\ pc = "done"
    /\ point_idx = 0
    /\ attempt = 0
    /\ flow_result = NoFlow
    /\ traffic_data_row = NoRow
    /\ successful_points = 0
    /\ traffic_data \in StoredTables
    /\ now = MaxRows
    /\ events = << >>
    /\ attempted = << >>
    /\ finished = << >>
    /\ InitCache
    /\ congestion_cache = << >>
    /\ InitAlerts
    /\ InitApp

\* the alert engine
NextAlerts ==
    \/ \E db_ok \in BOOLEAN : \E none_raises \in BOOLEAN :
          CheckForAlerts(db_ok, none_raises)
    \/ \E smtp_ok \in BOOLEAN : SendAlertEmail(smtp_ok)
    \/ WaitAnHour

SpecAlerts == InitStored /\ [][NextAlerts]_vars

\* the analyzer
NextAnalyzer == GetTrafficTrends \/ GetWorstPerformingRoutes

SpecAnalyzer == InitStored /\ [][NextAnalyzer]_vars

\* the collector process
Next == CollectorNext

Spec == Init /\ [][Next]_vars

\* the collector is one sequential process and every request has a timeout
\* (API_TIMEOUT), so a step that can be taken is taken
FairSpec == Spec /\ WF_vars(Next)

\* the route evaluator's lookups
NextCache == CacheNext

SpecCache == Init /\ [][NextCache]_vars

\* one process that runs a collection and then answers route lookups (the
\* collector never reads or writes the variables of the cache, so the
\* lookups made after the run see all it could have done to them)
NextShared ==
    \/ CollectorNext
    \/ pc = "done" /\ CacheNext

SpecShared == Init /\ [][NextShared]_vars

\* route search over any of the schedules
InitSchedules ==
    /\ InitCollector
    /\ InitCache
    /\ InitAlerts
    /\ stop_times \in Schedules
    /\ last_search = NoQuery
    /\ InitEvaluate
    /\ InitRerun
    /\ InitWorkers

NextRoutes ==
    \E source_name \in QueryNames : \E dest_name \in QueryNames :
        FindRoutesBetween(source_name, dest_name)

SpecRoutes == InitSchedules /\ [][NextRoutes]_vars

\* one request evaluated by a server whose cache is empty or holds one entry
InitServer ==
    /\ InitCollector
    /\ api_key = TRUE
    /\ InitCache
    /\ InitAlerts
    /\ email_configured = FALSE
    /\ InitApp

NextEvaluate == EvaluateNext

SpecEvaluate == InitServer /\ [][NextEvaluate]_vars

(***************************************************************************)
(* Two collection runs against an upstream that does not change: every     *)
(* request about a point gets the answer upstream[point] in both runs.     *)
(* The table may hold one sample from before the first run.                *)
(***************************************************************************)
RepeatedFlows ==
    { r \in FlowResponses : r.status \in {200, 500} /\ r.body \in {"segment", "-"} }

RepeatedIncidents == { r \in IncidentResponses : r.body = "incidents" /\ r.n = 3 }

Upstreams == [1..NumPoints -> [flow : RepeatedFlows, incident : RepeatedIncidents]]

EarlierTables == { t \in StoredTables : Len(t) <= 1 }

InitTwice ==
    /\ api_key = TRUE
    /\ pc = "idle"
    /\ point_idx = 0
    /\ attempt = 0
    /\ flow_result = NoFlow
    /\ traffic_data_row = NoRow
    /\ successful_points = 0
    /\ traffic_data \in EarlierTables
    /\ now = 1
    /\ events = << >>
    /\ attempted = << >>
    /\ finished = << >>
    /\ InitCache
    /\ congestion_cache = << >>
    /\ InitAlerts
    /\ email_configured = FALSE
    /\ InitRoutes
    /\ InitEvaluate
    /\ InitWorkers
    /\ upstream \in Upstreams
    /\ first_run = [NoFirstRun EXCEPT !.earlier = Len(traffic_data)]

\* collect_data is called a second time, at once or an hour after the first
\* run ended
CollectDataAgain(wait) ==
    /\ pc = "done"
    /\ ~first_run.done
    /\ first_run' = [first_run EXCEPT !.done = TRUE, !.table = traffic_data,
                                      !.finished = finished]
    /\ now' = now + wait
    /\ successful_points' = 0
    /\ point_idx' = 1
    /\ pc' = IF Len(MONITOR_POINTS) = 0 THEN "done" ELSE "call"
    /\ attempted' = << >>
    /\ finished' = << >>
    /\ UNCHANGED << api_key, attempt, flow_result, traffic_data_row,
                    traffic_data, events >>
    /\ UNCHANGED << cache_vars, alert_vars, analysis, route_vars, eval_vars,
                    upstream, worker_vars >>

NextTwice ==
    \/ CollectData
    \/ GetTrafficDataCall
    \/ pc = "flow" /\ FlowAttempt(upstream[point_idx].flow)
    \/ pc = "incident" /\ IncidentAttempt(upstream[point_idx].incident)
    \/ \E db_ok \in BOOLEAN : FinishPoint(db_ok)
    \/ \E wait \in {0, HourTicks} : CollectDataAgain(wait)

SpecTwice == InitTwice /\ [][NextTwice]_vars

(***************************************************************************)
(* Two route queries in one process.  The development server started by    *)
(* app.run handles each request in a thread of its own; the threads share  *)
(* congestion_cache and congestion_cache.json, and app.py has no lock.     *)
(* A thread is switched between two get_congestion calls and between two   *)
(* pieces json.dump writes.  The scores and ETAs of the requests are left  *)
(* out: a request is its lookups and its flush.                            *)
(***************************************************************************)
\* how many requests are handled at the same time
NumThreads == 2

Threads == 1..NumThreads

ThreadTrips == { 102 }

ThreadResponses ==
    { r \in AppResponses : r.kind = "exc_request" \/ r.cs \in { 15, 30 } }

\* the get_congestion calls of evaluate_routes([trip_id]), in order: those of
\* get_estimated_times, then those of the loop over the stops
Lookups(trip_id) ==
    LET st == get_ordered_stops_for_trip(stop_times, trip_id)
        coords == [i \in 1..Len(st) |-> << st[i].lat, st[i].lon >>]
    IN  coords \o coords

\* size: len(congestion_cache) when json.dump began to iterate over it;
\* written: the keys it has written; alone (history): no other thread has
\* opened or written the file since this one opened it
NoWorker ==
    [pc |-> "idle", todo |-> << >>, size |-> 0, written |-> {}, alone |-> TRUE]

request_locals ==
    << eval_pc, trip_ids, trip_pos, stops, stop_pos, base_time, current_time,
       times, total_delay, congestion_values, seen_pairs, route_scores, result,
       snapshot_before, trip_log >>

InitThreaded ==
    /\ InitCollector
    /\ api_key = TRUE
    /\ InitCache
    /\ InitAlerts
    /\ email_configured = FALSE
    /\ InitRoutes
    /\ InitEvaluate
    /\ InitRerun
    /\ workers = [t \in Threads |-> NoWorker]
    /\ overlap = FALSE

\* another thread is between open(CACHE_FILE, "w") and the end of the with
\* block
OtherInFlush(t) == \E u \in Threads : u # t /\ workers[u].pc = "writing"

\* the other threads after thread t touched the file
Disturbed(t) ==
    [u \in Threads |->
        IF u # t /\ workers[u].pc = "writing"
        THEN [workers[u] EXCEPT !.alone = FALSE] ELSE workers[u]]

\* a request arrives: evaluate_routes([trip_id]) starts in thread t
StartRequest(t, trip_id) ==
    /\ workers[t].pc = "idle"
    /\ workers' = [workers EXCEPT ![t] = [NoWorker EXCEPT !.pc = "lookup",
                                                          !.todo = Lookups(trip_id)]]
    /\ UNCHANGED << overlap, cache_file, request_locals >>
    /\ UNCHANGED << collector_vars, now, cache_vars, alert_vars, analysis, route_vars,
                    rerun_vars >>

\* the next get_congestion call of thread t
ThreadLookup(t, r) ==
    /\ workers[t].pc = "lookup"
    /\ workers[t].todo # << >>
    /\ get_congestion(Head(workers[t].todo)[1], Head(workers[t].todo)[2], r)
    /\ workers' = [workers EXCEPT ![t].todo = Tail(@)]
    /\ overlap' = (overlap \/ (congestion_cache' # congestion_cache /\ OtherInFlush(t)))
    /\ UNCHANGED << cache_file, request_locals >>
    /\ UNCHANGED << collector_vars, now, alert_vars, analysis, route_vars, rerun_vars >>

\* with open(CACHE_FILE, "w") as f, in thread t
ThreadOpen(t) ==
    /\ workers[t].pc = "lookup"
    /\ workers[t].todo = << >>
    /\ cache_file' = [data |-> << >>, whole |-> FALSE]
    /\ workers' = [Disturbed(t) EXCEPT
                      ![t] = [pc |-> "writing", todo |-> << >>,
                              size |-> Cardinality(DOMAIN congestion_cache),
                              written |-> {}, alone |-> TRUE]]
    /\ overlap' = (overlap \/ OtherInFlush(t))
    /\ UNCHANGED request_locals
    /\ UNCHANGED << collector_vars, now, cache_vars, alert_vars, analysis, route_vars,
                    rerun_vars >>

\* json.dump in thread t takes the next item of the dict and writes it; the
\* iteration raises RuntimeError when the dict has changed size
ThreadWrite(t) ==
    /\ workers[t].pc = "writing"
    /\ IF Cardinality(DOMAIN congestion_cache) # workers[t].size
       THEN /\ workers' = [workers EXCEPT ![t].pc = "failed"]
            /\ UNCHANGED << cache_file, overlap >>
       ELSE /\ workers[t].written # DOMAIN congestion_cache
            /\ LET key == CHOOSE k \in DOMAIN congestion_cache :
                              k \notin workers[t].written
               IN  /\ cache_file' =
                          [data |-> [k \in DOMAIN cache_file.data \cup {key} |->
                                        congestion_cache[k]],
                           whole |-> FALSE]
                   /\ workers' = [Disturbed(t) EXCEPT ![t].written = @ \cup {key}]
            /\ overlap' = (overlap \/ OtherInFlush(t))
    /\ UNCHANGED request_locals
    /\ UNCHANGED << collector_vars, now, cache_vars, alert_vars, analysis, route_vars,
                    rerun_vars >>

\* json.dump is through and the with block closes the file: the file is a
\* whole document if no other thread has written into it meanwhile
ThreadClose(t) ==
    /\ workers[t].pc = "writing"
    /\ Cardinality(DOMAIN congestion_cache) = workers[t].size
    /\ workers[t].written = DOMAIN congestion_cache
    /\ cache_file' = [cache_file EXCEPT !.whole = workers[t].alone]
    /\ workers' = [workers EXCEPT ![t].pc = "done"]
    /\ UNCHANGED << overlap, request_locals >>
    /\ UNCHANGED << collector_vars, now, cache_vars, alert_vars, analysis, route_vars,
                    rerun_vars >>

NextThreaded ==
    \E t \in Threads :
        \/ \E trip_id \in ThreadTrips : StartRequest(t, trip_id)
        \/ \E r \in ThreadResponses : ThreadLookup(t, r)
        \/ ThreadOpen(t)
        \/ ThreadWrite(t)
        \/ ThreadClose(t)

SpecThreaded == InitThreaded /\ [][NextThreaded]_vars

(***************************************************************************)
(* Claims about the collector                                              *)
(***************************************************************************)
FlowEventsOf(evs) == { i \in 1..Len(evs) : evs[i].ev = "flow" }

IsFlowFailure(e) ==
    e.ev = "flow" /\ (e.kind = "exc_request" \/ (e.kind = "http" /\ e.status # 200))

\* get_traffic_data has returned and every flow request it made failed with
\* a transport exception or a non-200 status
EveryFlowRequestFailed ==
    /\ pc = "returned"
    /\ FlowEventsOf(events) # {}
    /\ \A i \in FlowEventsOf(events) : IsFlowFailure(events[i])

\* C1: when every flow request for a point fails (transport exception or
\* non-200), get_traffic_data has made exactly MAX_RETRIES = 3 requests, slept
\* 1s after the first failure and 2s after the second, not slept after the
\* third, and returns no sample; while requests remain it has not returned.
C1_RetryExhaustion ==
    /\ EveryFlowRequestFailed =>
          /\ Cardinality(FlowEventsOf(events)) = 3
          /\ Len(events) = 5
          /\ IsFlowFailure(events[1]) /\ events[2] = SleepEvent(1)
          /\ IsFlowFailure(events[3]) /\ events[4] = SleepEvent(2)
          /\ IsFlowFailure(events[5])
          /\ ~traffic_data_row.present
    /\ (pc = "flow" /\ \A i \in FlowEventsOf(events) : IsFlowFailure(events[i]))
          => Cardinality(FlowEventsOf(events)) < 3

C1_Witness ==
    /\ EveryFlowRequestFailed
    /\ events[1].kind = "exc_request"
    /\ events[3].status = 500
    /\ events[5].status = 403

\* C2: a flow request answered with 403 is the last thing get_traffic_data
\* does for the point: it is the only request, no backoff sleep follows and
\* the call returns without a sample.
C2_NoRetryOn403 ==
    \A i \in FlowEventsOf(events) :
        events[i].status = 403 =>
            /\ Len(events) = 1
            /\ pc = "returned"
            /\ ~traffic_data_row.present

InListOrder(seq) == \A i \in 1..Len(seq) : seq[i] = i

\* C3: a collect_data run attempts the entries of MONITOR_POINTS one by one in
\* list order, whatever the outcome of each, and ends having attempted every
\* entry exactly once.
C3_EveryPointAttempted ==
    /\ [](InListOrder(attempted) /\ Len(finished) <= Len(attempted))
    /\ [](pc = "done" => Len(attempted) = Len(MONITOR_POINTS)
                          /\ Len(finished) = Len(MONITOR_POINTS))
    /\ <>(pc = "done")

C3_Witness ==
    /\ pc = "done"
    /\ Len(attempted) = Len(MONITOR_POINTS)
    /\ finished[1] = "error"
    /\ \E i \in 1..Len(finished) : finished[i] = "nodata"

\* C6: no row of traffic_data has a missing current_speed or free_flow_speed.
C6_NoNullSpeedPersisted ==
    \A i \in 1..Len(traffic_data) :
        /\ ~IsNone(traffic_data[i].current_speed)
        /\ ~IsNone(traffic_data[i].free_flow_speed)

\* C19: when TOMTOM_API_KEY is not set, no collection run is started and no
\* monitored point is processed.
C19_NoRunWithoutCredential ==
    ~api_key => (pc = "idle" /\ attempted = << >>)

\* C20: at the end of a collect_data run over an empty table the success
\* count equals the number of rows in traffic_data and lies between 0 and the
\* number of monitored points.
C20_SuccessCountIsRowsInserted ==
    pc = "done" =>
        /\ successful_points = Len(traffic_data)
        /\ successful_points >= 0
        /\ successful_points <= Len(MONITOR_POINTS)

\* a finished run with a database error at one point and a row saved for
\* another
C20_Witness ==
    /\ pc = "done"
    /\ successful_points = 1
    /\ Len(traffic_data) = 1
    /\ \E i \in 1..Len(finished) : finished[i] = "error"
    /\ \E i \in 1..Len(finished) : finished[i] = "saved"

(***************************************************************************)
(* Claims about the congestion cache                                       *)
(***************************************************************************)
\* C4: once get_congestion has fetched a pair for a coordinate from the
\* upstream, every later call for the same coordinates returns that pair and
\* makes no upstream request.
C4_CacheRoundTrip ==
    last_call.seen => /\ last_call.ret = last_call.want
                      /\ last_call.requests = 0

C4_Witness ==
    /\ last_call.seen
    /\ last_call.ret = << 20, 40 >>
    /\ cache_hits >= 1
    /\ api_calls >= 2

\* C5: a route lookup of a coordinate of which the collector has stored a
\* sample in this process makes no upstream request.
C5_CollectorFillsCache ==
    last_call.polled => last_call.requests = 0

\* the first four decimal places of a coordinate given in units of 1e-5
FourDecimals(x) == x \div 10

LastCoord == << last_call.lat, last_call.lon >>

\* C17 as stated: a call for a coordinate that agrees in the first 4 decimal
\* places of latitude and longitude with a coordinate fetched before is
\* served from that coordinate's cache entry.
C17_SameFourDecimalsShareEntry ==
    \A c \in DOMAIN fetched :
        ( /\ c # LastCoord
          /\ FourDecimals(c[1]) = FourDecimals(last_call.lat)
          /\ FourDecimals(c[2]) = FourDecimals(last_call.lon) )
        => /\ last_call.requests = 0
           /\ last_call.ret = fetched[c]

\* C17 amended: a call for a coordinate whose latitude and longitude round
\* to the same 4 decimal places as those of a coordinate fetched before is
\* served from that coordinate's cache entry.
C17_SameRoundingSharesEntry ==
    \A c \in DOMAIN fetched :
        ( /\ c # LastCoord
          /\ Round4(c[1]) = Round4(last_call.lat)
          /\ Round4(c[2]) = Round4(last_call.lon) )
        => /\ last_call.requests = 0
           /\ last_call.ret = fetched[c]

\* 12.97584 asked after 12.97580 was fetched: a hit on the same entry
C17_Witness ==
    /\ LastCoord = << 1297584, 7760450 >>
    /\ << 1297580, 7760450 >> \in DOMAIN fetched
    /\ last_call.requests = 0
    /\ last_call.ret = fetched[<< 1297580, 7760450 >>]

(***************************************************************************)
(* Claims about the alert engine                                           *)
(***************************************************************************)
\* the list alerts is the outcome of evaluating recent_data
Evaluated == passes > 0 /\ last_pass.returned \notin {"None", "TypeError"}

HasAlert(row, type) ==
    \E j \in 1..Len(alerts) :
        /\ alerts[j].sample = row.timestamp
        /\ alerts[j].point_name = row.point_name
        /\ alerts[j].alert_type = type

\* C7: when a pass has persisted its alerts and the dispatch succeeded, every
\* alert record the pass persisted has notified = 1.
C7_NotifiedAfterDispatch ==
    (alert_pc = "idle" /\ last_pass.saved /\ last_pass.dispatched) =>
        \A i \in 1..Len(traffic_alerts) :
            traffic_alerts[i].timestamp = last_pass.save_ts =>
                traffic_alerts[i].notified = 1

C9_SeverityInRange ==
    /\ \A j \in 1..Len(alerts) : alerts[j].severity \in 1..10
    /\ \A i \in 1..Len(traffic_alerts) : traffic_alerts[i].severity \in 1..10

C9_Witness ==
    /\ \E i \in 1..Len(traffic_alerts) :
          /\ traffic_alerts[i].alert_type = "INCIDENTS"
          /\ traffic_alerts[i].severity = 10
    /\ \E i \in 1..Len(traffic_alerts) :
          /\ traffic_alerts[i].alert_type = "SPEED_REDUCTION"
          /\ traffic_alerts[i].severity = 6

(***************************************************************************)
(* Claims about the traffic index                                          *)
(***************************************************************************)
InRange0To100(x) == x.num >= 0 /\ x.num <= 100 * x.den

\* C10: every traffic index computed from speeds with freeFlowSpeed > 0, by
\* the alert engine, by get_traffic_trends and by
\* get_worst_performing_routes, lies in [0, 100], and is 0 when
\* currentSpeed >= freeFlowSpeed.
C10_IndexClamped ==
    /\ \A i \in 1..Len(traffic_data) :
          LET cs == traffic_data[i].current_speed
              ffs == traffic_data[i].free_flow_speed
          IN  (~IsNone(cs) /\ ffs > 0) =>
                  /\ InRange0To100(AlertTrafficIndex(cs, ffs))
                  /\ cs >= ffs => AlertTrafficIndex(cs, ffs).num = 0
    /\ \A r \in analysis.rows :
          ~IsNone(r.traffic_index.num) =>
              /\ InRange0To100(r.traffic_index)
              /\ \A i \in 1..Len(traffic_data) :
                    ( /\ traffic_data[i].point_name = r.point_name
                      /\ Len(SelectSeq(traffic_data,
                               LAMBDA row : row.point_name = r.point_name)) = 1
                      /\ traffic_data[i].free_flow_speed > 0
                      /\ traffic_data[i].current_speed >= traffic_data[i].free_flow_speed )
                    => r.traffic_index.num = 0

(***************************************************************************)
(* Claims about the route search                                           *)
(***************************************************************************)
\* the source id occurs in seq at some position before some position of the
\* destination id
OccursBefore(seq, source_id, dest_id) ==
    \E i \in 1..Len(seq) : \E j \in (i + 1)..Len(seq) :
        seq[i] = source_id /\ seq[j] = dest_id

ResultSet == { last_search.ret[i] : i \in 1..Len(last_search.ret) }

\* C11: when the names resolve to two different stop ids, find_routes_between returns
\* exactly the trips whose stop sequence has the source id at some position
\* before some position of the destination id, trips that visit a stop more
\* than once included.
C11_ExactlyTheTripsInOrder ==
    LET source_id == get_stop_id_by_name(last_search.source)
        dest_id == get_stop_id_by_name(last_search.dest)
    IN  (/\ last_search.called
         /\ source_id # None
         /\ dest_id # None
         /\ source_id # dest_id) =>
            ResultSet =
                { t \in { r.trip_id : r \in stop_times } :
                    OccursBefore(StopIdsOfTrip(stop_times, t), source_id, dest_id) }

\* the name matches a stop of the stop table, case-insensitively
NameMatches(stop_name) ==
    \E i \in 1..Len(stops_df) : Lower[stops_df[i].stop_name] = Lower[stop_name]

\* some trip has the stop the source name resolves to before the stop the
\* destination name resolves to
SomeTripQualifies ==
    \E t \in { r.trip_id : r \in stop_times } :
        OccursBefore(StopIdsOfTrip(stop_times, t),
                     get_stop_id_by_name(last_search.source),
                     get_stop_id_by_name(last_search.dest))

\* C12: asked for two different names, find_routes_between returns the empty
\* list exactly when a name matches no stop or no trip has the source before
\* the destination.
C12_EmptyOnlyWhenNoRoute ==
    (last_search.called /\ Lower[last_search.source] # Lower[last_search.dest]) =>
        (last_search.ret = << >>
            <=> (~NameMatches(last_search.source) \/ ~NameMatches(last_search.dest)
                    \/ ~SomeTripQualifies))

(***************************************************************************)
(* Claims about the route evaluation                                       *)
(***************************************************************************)
\* both speeds are present and strictly positive
ValidSpeeds(p) == p[1] # None /\ p[2] # None /\ p[1] > 0 /\ p[2] > 0

\* the stop was given a speed pair: both speeds present and not zero
PairHasData(p) == p[1] \notin { None, 0 } /\ p[2] \notin { None, 0 }

\* max(0, 100 - 100 * currentSpeed / freeFlowSpeed) of a valid pair
StatedCongestion(p) == Rat(Max(0, 100 * p[2] - 100 * p[1]), p[2])

\* (1 - currentSpeed / freeFlowSpeed) * 1.5 of a pair
StatedDelay(p) == Rat(3 * (p[2] - p[1]), 2 * p[2])

ScoresOf(trip_id) == SelectSeq(route_scores, LAMBDA sc : sc.trip_id = trip_id)

\* C13: of every trip evaluate_routes has dealt with, if at least one stop
\* got valid speeds the trip is reported once, with avg_congestion the mean
\* and est_delay_min the sum over the stops with valid speeds (to two
\* decimals); a trip none of whose stops got speed data is absent.
C13_AggregatesAsStated ==
    \A k \in 1..Len(trip_log) :
        LET valid == SelectSeq(trip_log[k].stop_pairs, ValidSpeeds)
            scores == ScoresOf(trip_log[k].trip_id)
        IN  IF valid # << >>
            THEN /\ Len(scores) = 1
                 /\ scores[1].avg_congestion =
                        Round2(Mean([i \in 1..Len(valid) |-> StatedCongestion(valid[i])]))
                 /\ scores[1].est_delay_min =
                        Round2(SumRat([i \in 1..Len(valid) |-> StatedDelay(valid[i])]))
            ELSE (\A i \in 1..Len(trip_log[k].stop_pairs) :
                      ~PairHasData(trip_log[k].stop_pairs[i]))
                  => scores = << >>

\* C14: the stops aggregated for a trip are those whose speeds are both
\* present and strictly positive, and every aggregated congestion value lies
\* in [0, 100].
C14_OnlyPositiveSpeedsAggregated ==
    \A k \in 1..Len(trip_log) :
        \A i \in 1..Len(ScoresOf(trip_log[k].trip_id)) :
            LET sc == ScoresOf(trip_log[k].trip_id)[i]
            IN  /\ Len(sc.congestion_values)
                      = Len(SelectSeq(trip_log[k].stop_pairs, ValidSpeeds))
                /\ \A j \in 1..Len(sc.congestion_values) :
                      InRange0To100(sc.congestion_values[j])

PositionIn(seq, x) == CHOOSE i \in 1..Len(seq) : seq[i] = x

\* C15: the list evaluate_routes returns holds the evaluations of
\* route_scores in ascending order of est_delay_min, and evaluations of equal
\* est_delay_min in the order of their trip ids in the argument.
C15_SortedStably ==
    eval_pc = "done" =>
        /\ Len(result) = Len(route_scores)
        /\ \A i \in 1..Len(route_scores) :
              \E j \in 1..Len(result) : result[j] = route_scores[i]
        /\ \A i \in 1..Len(result) : \A j \in (i + 1)..Len(result) :
              /\ result[i].est_delay_min <= result[j].est_delay_min
              /\ result[i].est_delay_min = result[j].est_delay_min
                    => PositionIn(trip_ids, result[i].trip_id)
                         < PositionIn(trip_ids, result[j].trip_id)

\* two trips with the same delay, given in descending order of trip id
C15_Witness ==
    /\ eval_pc = "done"
    /\ trip_ids = << 102, 101 >>
    /\ Len(result) = 2
    /\ result[1].est_delay_min = result[2].est_delay_min
    /\ result[1].trip_id = 102
    /\ result[1].est_delay_min > 0

\* the minutes from the start to the ETA of stop i
RECURSIVE DelayUpTo(_, _)
DelayUpTo(pairs, i) ==
    IF i = 0 THEN Zero
    ELSE IF PairHasData(pairs[i])
         THEN AddRat(DelayUpTo(pairs, i - 1), StatedDelay(pairs[i]))
         ELSE DelayUpTo(pairs, i - 1)

C18_SnapshotReplacedAtomically ==
    /\ eval_pc = "killed" =>
          cache_file \in { snapshot_before, Snapshot(congestion_cache) }
    /\ eval_pc = "done" => cache_file = Snapshot(congestion_cache)

(***************************************************************************)
(* Claims about failed lookups of get_congestion                           *)
(***************************************************************************)
\* the upstream was asked and the lookup failed: no 200, a transport
\* exception, or a 200 body without the two speed fields
LookupFailed(r) ==
    \/ r.kind = "exc_request"
    \/ r.kind = "http" /\ r.status # 200
    \/ r.kind = "http" /\ r.status = 200
          /\ (r.body # "segment" \/ IsNone(r.cs) \/ IsNone(r.ffs))

\* C21: when the upstream lookup of a get_congestion call fails (non-200
\* status, transport exception, or a response lacking the speed fields), the
\* call returns (None, None) and the congestion cache is exactly what it was
\* before the call.
C21_FailedLookupLeavesCache ==
    (last_call.requests = 1 /\ LookupFailed(last_call.answer))
        => /\ last_call.ret = NoPair
           /\ congestion_cache = last_call.before

\* a failed lookup against a cache that holds an entry for another key
C21_Witness ==
    /\ last_call.requests = 1
    /\ last_call.answer.kind = "http" /\ last_call.answer.status = 200
    /\ last_call.answer.body = "nosegment"
    /\ last_call.ret = NoPair
    /\ DOMAIN last_call.before # {}
    /\ congestion_cache = last_call.before

(***************************************************************************)
(* Claims about the passes of check_for_alerts                             *)
(***************************************************************************)
\* C22: check_for_alerts returns a list in every case: the empty list when
\* there are no samples of the last hour and when no rule fires.
C22_AlwaysReturnsList ==
    (passes > 0 /\ alert_pc = "idle")
        => /\ last_pass.returned = "list"
           /\ (recent_data = << >> \/ EvaluateRows(recent_data) = << >>)
                 => alerts = << >>

\* the rows of the alert table written for the alerts of the pass that
\* saved at save_ts
PersistedInPass(alert) ==
    \E i \in 1..Len(traffic_alerts) :
        /\ traffic_alerts[i].point_name = alert.point_name
        /\ traffic_alerts[i].alert_type = alert.alert_type
        /\ traffic_alerts[i].timestamp = last_pass.save_ts

\* C23: in every pass, when the notification is dispatched all the alerts of
\* the pass are already in the alert table; no notification is dispatched
\* for an alert that has not been persisted.
C23_PersistedBeforeDispatch ==
    /\ alert_pc = "dispatch" =>
          \A j \in 1..Len(alerts) : PersistedInPass(alerts[j])
    /\ last_pass.dispatched =>
          \A j \in 1..Len(alerts) : PersistedInPass(alerts[j])

\* C24: the rules are evaluated per monitored point: the alerts of one pass
\* hold at most one alert of each type for a point, however many samples of
\* the point lie in the last hour.
C24_OneAlertPerPointAndType ==
    \A i \in 1..Len(alerts) : \A j \in 1..Len(alerts) :
        ( /\ alerts[i].point_name = alerts[j].point_name
          /\ alerts[i].alert_type = alerts[j].alert_type ) => i = j

\* C27: across passes with no new sample in between, a sample yields at most
\* one record of a given type in the alert table: a second pass does not
\* raise or persist an alert for a sample that already produced one.
C27_SecondPassAddsNothing ==
    \A i \in 1..Len(traffic_alerts) : \A j \in 1..Len(traffic_alerts) :
        ( /\ traffic_alerts[i].sample = traffic_alerts[j].sample
          /\ traffic_alerts[i].point_name = traffic_alerts[j].point_name
          /\ traffic_alerts[i].alert_type = traffic_alerts[j].alert_type ) => i = j

(***************************************************************************)
(* Claims about the ETAs of a trip                                         *)
(***************************************************************************)
\* the pair the scoring loop got for a stop went into congestion_values and
\* total_delay
Contributed(p) == p[1] \notin { None, 0 } /\ p[2] # None /\ p[2] > 0

\* C28: in every result of evaluate_routes, the ETA of a stop is "N/A"
\* exactly when the stop contributed nothing to avg_congestion and
\* est_delay_min, whatever the cache holds and whatever the upstream answers
\* to the lookups of the ETA pass and of the scoring pass.
C28_EtaMissingIffNoContribution ==
    \A k \in 1..Len(trip_log) :
        LET e == trip_log[k] IN
        \A i \in 1..Len(e.etas) :
            e.etas[i].na <=> ~Contributed(e.stop_pairs[i])

\* the ETAs of a list that are not "N/A", in the order of the stops
ShownTimes(etas) ==
    LET shown == SelectSeq(etas, LAMBDA t : ~t.na)
    IN  [i \in 1..Len(shown) |-> shown[i].hhmm]

\* C29: in get_estimated_times the running clock never moves backwards:
\* each ETA that is not "N/A" is at or after the start time and at or after
\* the previous ETA that is not "N/A" (walks starting at 10:00, which do not
\* pass midnight).
C29_ClockNeverGoesBack ==
    \A k \in 1..Len(trip_log) :
        trip_log[k].base_time = 600 =>
            LET shown == ShownTimes(trip_log[k].etas) IN
            \A i \in 1..Len(shown) :
                /\ shown[i] >= 600
                /\ i > 1 => shown[i] >= shown[i - 1]

(***************************************************************************)
(* Claims about the incident query of the collector                        *)
(***************************************************************************)
IncidentEventsOf(ev) == SelectSeq(ev, LAMBDA e : e.ev = "incident")

\* every attempt of the incident query of the current point has failed
IncidentQueryExhausted ==
    /\ pc = "returned"
    /\ Len(IncidentEventsOf(events)) = MAX_RETRIES
    /\ \A i \in 1..Len(events) :
          events[i].ev = "incident" =>
              ~(events[i].kind = "http" /\ events[i].status = 200)

\* an incident request follows a flow request answered 200, which is the
\* last flow request of the call
IncidentOnlyAfterFlow200 ==
    \A i \in 1..Len(events) :
        events[i].ev = "incident" =>
            /\ \E j \in 1..(i - 1) :
                  /\ events[j].ev = "flow"
                  /\ events[j].kind = "http" /\ events[j].status = 200
            /\ \A j \in 1..Len(events) :
                  (events[j].ev = "flow" /\ j > i) => FALSE

\* collect_data stores and counts the sample of the point unless the INSERT
\* itself fails
StoredAndCounted ==
    finished' # Append(finished, "error")
        => /\ finished' = Append(finished, "saved")
           /\ Len(traffic_data') = Len(traffic_data) + 1
           /\ traffic_data'[Len(traffic_data')].point_name
                 = MONITOR_POINTS[point_idx].name
           /\ traffic_data'[Len(traffic_data')].traffic_incidents = 0
           /\ successful_points' = successful_points + 1

\* C30: a failure of the incident query (all retries exhausted) never keeps
\* the sample of the point from being persisted and counted as successful:
\* get_traffic_data returns the sample with traffic_incidents = 0 and
\* collect_data stores and counts it; and an incident query is issued only
\* after the flow query of the point was answered 200.
C30_IncidentFailureKeepsSample ==
    /\ [](IncidentOnlyAfterFlow200)
    /\ [](IncidentQueryExhausted =>
             /\ traffic_data_row.present
             /\ traffic_data_row.traffic_incidents = 0
             /\ traffic_data_row.current_speed = flow_result.cs)
    /\ [][IncidentQueryExhausted => StoredAndCounted]_vars

\* a sample stored with 0 incidents after three failed incident requests
C30_Witness ==
    /\ IncidentQueryExhausted
    /\ traffic_data_row.present
    /\ traffic_data_row.traffic_incidents = 0
    /\ traffic_data_row.current_speed = 20

(***************************************************************************)
(* Claims about repeated collection runs                                   *)
(***************************************************************************)
\* two traffic indexes are the same number (or both NaN)
SameIndex(a, b) ==
    IF IsNone(a.num) \/ IsNone(b.num) THEN IsNone(a.num) /\ IsNone(b.num)
    ELSE a.num * b.den = b.num * a.den

\* the traffic indexes get_traffic_trends reports for a point
IndexesOf(table, name) ==
    { row.traffic_index : row \in { t \in get_traffic_trends(table) : t.point_name = name } }

SameIndexes(A, B) ==
    /\ \A a \in A : \E b \in B : SameIndex(a, b)
    /\ \A b \in B : \E a \in A : SameIndex(a, b)

\* the samples a run added to the table
AddedBetween(table, from, to) ==
    { table[i] : i \in { k \in 1..Len(table) : k > from /\ k <= to } }

FirstRunSamples == AddedBetween(traffic_data, first_run.earlier, Len(first_run.table))

SecondRunSamples == AddedBetween(traffic_data, Len(first_run.table), Len(traffic_data))

\* both runs are over and stored samples of the same points
TwoRunsOver == pc = "done" /\ first_run.done /\ first_run.finished = finished

\* the index of a point from its sample of the second run is the one from
\* its sample of the first run
SameIndexPerSample ==
    \A a \in FirstRunSamples : \A b \in SecondRunSamples :
        a.point_name = b.point_name => SameIndex(GroupIndex(<< a >>), GroupIndex(<< b >>))

\* the samples of the point stored before the first run have the speeds of
\* the sample the runs store for it
EarlierSamplesAgree(name) ==
    \A e \in AddedBetween(traffic_data, 0, first_run.earlier) :
        \A a \in FirstRunSamples :
            (e.point_name = name /\ a.point_name = name)
                => /\ e.current_speed = a.current_speed
                   /\ e.free_flow_speed = a.free_flow_speed

EntriesWhole ==
    \A k \in DOMAIN congestion_cache :
        /\ Len(congestion_cache[k]) = 2
        /\ ~IsNone(congestion_cache[k][1])
        /\ ~IsNone(congestion_cache[k][2])

\* C25: when two route queries run concurrently in one process, no cache
\* update or snapshot flush of one request happens inside the snapshot
\* flush of the other (one writer at a time), and a reader always finds
\* fully written cache entries.
C25_OneWriterAtATime == ~overlap /\ EntriesWhole

====
